---- MODULE Spec2Model ----
(***************************************************************************)
(* State-machine model of the wheel-size scraper (src/main.py): the        *)
(* orchestrator (main), the workers (process_make_year), the per-target    *)
(* retry loop (scrape_vehicle_page), the store (save_vehicle_data and the  *)
(* .done marker) and the results directory that survives between runs.     *)
(***************************************************************************)
EXTENDS Integers, Sequences, FiniteSets, TLC

\* ------------------------------------------------------------------ bounds
NumMakes == 2
NumYears == 1
MaxModels == 2
NumWorkers == 2
MaxRuns == 2
MaxLen == 4
MaxTokens == 5
MaxPanels == 2

\* ------------------------------------------------------- program constants
MAX_RETRIES == 5
INITIAL_BACKOFF_DELAY_SECONDS == 30
LastYear == 2025

AllMakes == <<"acura", "alfa-romeo", "aston-martin", "audi">>
AllModels == <<"cr/v", "mdx", "giulia", "a4">>

\* TARGET_MAKES, cut to the first NumMakes entries of the configured list
TARGET_MAKES == SubSeq(AllMakes, 1, NumMakes)

\* TARGET_YEARS = list(range(2000, 2026)), cut to its last NumYears entries
TARGET_YEARS == [i \in 1..NumYears |-> LastYear - NumYears + i]

\* reversed(TARGET_YEARS)
ReversedYears == [i \in 1..NumYears |-> TARGET_YEARS[NumYears + 1 - i]]

\* the cross-product collapsed: every entry is the first (make, year)
all_tasks_repeated ==
    [k \in 1..(NumMakes * NumYears) |-> <<TARGET_MAKES[1], ReversedYears[1]>>]

\* [(make, year) for make in TARGET_MAKES for year in reversed(TARGET_YEARS)]
all_tasks ==
    [k \in 1..(NumMakes * NumYears) |->
        <<TARGET_MAKES[((k - 1) \div NumYears) + 1],
          ReversedYears[((k - 1) % NumYears) + 1]>>]

Range(s) == {s[i] : i \in 1..Len(s)}

Tasks == Range(all_tasks)
Models == Range(SubSeq(AllModels, 1, MaxModels))
Workers == 1..NumWorkers
NoTask == <<>>

\* model.lower().replace('/', '_'): the model part of a StoredFile name
ModelFileName(model) == IF model = "cr/v" THEN "cr_v" ELSE model

\* RESULTS_DIR / make.lower() / str(year): the directory of a (make, year)
DirPath(make, year) == <<make, year>>

\* RESULTS_DIR / make / str(year) / f"{make}__{model}__{year}.json"
FilePath(make, model, year) == <<make, ModelFileName(model), year>>

\* RESULTS_DIR / make / str(year) / DONE_MARKER
DonePath(make, year) == <<make, year>>

Targets == {<<t[1], m, t[2]>> : t \in Tasks, m \in Models}
Paths == {FilePath(g[1], g[2], g[3]) : g \in Targets}

\* the model lists a discovery can return: the selectable options of the
\* site's model drop-down, in the site's order
RECURSIVE SubLists(_)
SubLists(s) ==
    IF s = <<>> THEN {<<>>}
    ELSE LET rest == SubLists(Tail(s))
         IN  rest \cup {<<Head(s)>> \o r : r \in rest}

ModelLists == SubLists(SubSeq(AllModels, 1, MaxModels))

\* ------------------------------------------------------ parsing functions
\* A Python value that is None or a string; a string is its sequence of
\* characters.
None == [none |-> TRUE, s |-> <<>>]
Str(s) == [none |-> FALSE, s |-> s]

\* the characters the strings of the model are made of: digits, the decimal
\* point, the sign, a blank and a letter
Digits == {"0", "2", "5"}
Chars == Digits \cup {".", "-", " ", "n"}

Strings(n) == UNION {[1..k -> Chars] : k \in 0..n}

DigitChar(d) == <<"0", "1", "2", "3", "4", "5", "6", "7", "8", "9">>[d + 1]
DigitVal(c) == CHOOSE d \in 0..9 : DigitChar(d) = c

RECURSIVE LStrip(_)
LStrip(s) == IF s # <<>> /\ Head(s) = " " THEN LStrip(Tail(s)) ELSE s

RECURSIVE RStrip(_)
RStrip(s) ==
    IF s # <<>> /\ s[Len(s)] = " " THEN RStrip(SubSeq(s, 1, Len(s) - 1)) ELSE s

\* the value of a string of decimal digits (0 for the empty string)
RECURSIVE DigitsValue(_)
DigitsValue(s) ==
    IF s = <<>> THEN 0
    ELSE 10 * DigitsValue(SubSeq(s, 1, Len(s) - 1)) + DigitVal(s[Len(s)])

\* str(n) for an integer n
RECURSIVE Decimal(_)
Decimal(n) ==
    IF n < 0 THEN <<"-">> \o Decimal(0 - n)
    ELSE IF n < 10 THEN <<DigitChar(n)>>
    ELSE Decimal(n \div 10) \o <<DigitChar(n % 10)>>

\* float(num_str) on the strings of the model: blanks around the number are
\* dropped, then an optional sign, then digits with at most one decimal
\* point and at least one digit; anything else raises ValueError (ok is
\* FALSE).  The value is kept as sign, integer part and fraction digits.
float(s) ==
    LET t == RStrip(LStrip(s))
        neg == t # <<>> /\ Head(t) = "-"
        u == IF neg THEN Tail(t) ELSE t
        dots == {i \in 1..Len(u) : u[i] = "."}
        d == IF dots = {} THEN Len(u) + 1 ELSE CHOOSE i \in dots : TRUE
        ip == SubSeq(u, 1, d - 1)
        fp == SubSeq(u, d + 1, Len(u))
        ok == /\ Cardinality(dots) <= 1
              /\ \A i \in 1..Len(ip) : ip[i] \in Digits
              /\ \A i \in 1..Len(fp) : fp[i] \in Digits
              /\ Len(ip) + Len(fp) >= 1
    IN  [ok |-> ok, neg |-> ok /\ neg,
         int |-> IF ok THEN DigitsValue(ip) ELSE 0,
         frac |-> IF ok THEN fp ELSE <<>>]

\* f.is_integer()
is_integer(f) == \A i \in 1..Len(f.frac) : f.frac[i] = "0"

\* str(int(f))
str_int(f) == Decimal(IF f.neg THEN 0 - f.int ELSE f.int)

\* the function without its conversion: every input comes back as it is
format_number_unchanged(num_str) == num_str

\* format_number: None for None, the integer string for a string that
\* parses to a whole number, the string itself otherwise
format_number(num_str) ==
    IF num_str.none THEN None
    ELSE LET f == float(num_str.s)
         IN  IF ~f.ok THEN num_str
             ELSE IF is_integer(f) THEN Str(str_int(f))
             ELSE num_str

\* Markup is the sequence of its tokens: the start and end tags of a table
\* cell and of spans (with their class), line breaks and text.
Token(k, cls, t) == [k |-> k, cls |-> cls, t |-> t]
TdOpen == Token("td", "", <<>>)
TdClose == Token("/td", "", <<>>)
SpanOpen(cls) == Token("span", cls, <<>>)
SpanClose == Token("/span", "", <<>>)
Br == Token("br", "", <<>>)
Text(t) == Token("text", "", t)

\* the classes get_clean_text removes (badge, tire_load_index, d-block,
\* fa-li), stood for by the first
RemovedClasses == {"badge"}

\* the index of the end tag that closes the span opened at index i (the
\* end of the markup when it is never closed)
RECURSIVE MatchFrom(_, _, _)
MatchFrom(ts, j, depth) ==
    IF j > Len(ts) THEN Len(ts)
    ELSE IF ts[j].k = "span" THEN MatchFrom(ts, j + 1, depth + 1)
    ELSE IF ts[j].k = "/span"
         THEN IF depth = 0 THEN j ELSE MatchFrom(ts, j + 1, depth - 1)
    ELSE MatchFrom(ts, j + 1, depth)

Match(ts, i) == MatchFrom(ts, i + 1, 0)

\* element.find('span', class_=cls): the index of the start tag of the first
\* span of that class below the element, 0 when there is none
find(element, cls) ==
    LET hits == {i \in 2..Len(element) : element[i] = SpanOpen(cls)}
    IN  IF hits = {} THEN 0 ELSE CHOOSE i \in hits : \A j \in hits : i <= j

\* the element that starts at index i
ElementAt(ts, i) == SubSeq(ts, i, Match(ts, i))

\* tag.decompose() for the element that starts at index i
Decompose(ts, i) == SubSeq(ts, 1, i - 1) \o SubSeq(ts, Match(ts, i) + 1, Len(ts))

\* ' '.join(text.split()) on text without blanks at its ends: a run of
\* blanks becomes one blank
RECURSIVE Collapse(_)
Collapse(s) ==
    IF Len(s) < 2 THEN s
    ELSE IF s[1] = " " /\ s[2] = " " THEN Collapse(Tail(s))
    ELSE <<s[1]>> \o Collapse(Tail(s))

\* the open elements after an end tag `name`: the parser closes everything
\* up to the nearest open element of that name and ignores the end tag when
\* there is none
PopTo(stack, name) ==
    LET open == {i \in 1..Len(stack) : stack[i].k = name}
    IN  IF open = {} THEN stack
        ELSE SubSeq(stack, 1, (CHOOSE i \in open : \A j \in open : j <= i) - 1)

\* BeautifulSoup(markup, 'html.parser'), the removed classes decomposed, and
\* get_text(strip=True): the stripped text pieces that are below no removed
\* element, joined with nothing between them.  stack holds the start tags
\* of the elements open at token i.
RECURSIVE TextFrom(_, _, _)
TextFrom(ts, i, stack) ==
    IF i > Len(ts) THEN <<>>
    ELSE LET tok == ts[i]
         IN  CASE tok.k \in {"td", "span"} -> TextFrom(ts, i + 1, Append(stack, tok))
               [] tok.k = "/td" -> TextFrom(ts, i + 1, PopTo(stack, "td"))
               [] tok.k = "/span" -> TextFrom(ts, i + 1, PopTo(stack, "span"))
               [] tok.k = "text" ->
                     (IF \E j \in 1..Len(stack) : stack[j].cls \in RemovedClasses
                      THEN <<>> ELSE RStrip(LStrip(tok.t)))
                     \o TextFrom(ts, i + 1, stack)
               [] OTHER -> TextFrom(ts, i + 1, stack)

\* get_clean_text: None for a falsy element (the empty string; a Tag is
\* always truthy), else the cleaned text of the re-parsed markup
get_clean_text(element) ==
    IF element = <<>> THEN None
    ELSE Str(Collapse(TextFrom(element, 1, <<>>)))

\* re.split(r'<br\s*/?>', html_string, maxsplit=1): the markup before and
\* after the first line break, or the markup alone
SplitAtBr(ts) ==
    LET brs == {i \in 1..Len(ts) : ts[i] = Br}
        b == CHOOSE i \in brs : \A j \in brs : i <= j
    IN  IF brs = {} THEN <<ts>>
        ELSE <<SubSeq(ts, 1, b - 1), SubSeq(ts, b + 1, Len(ts))>>

\* the split without the rear-marker tier
get_staggered_data_br_only(cell, is_imperial) ==
    LET target == IF is_imperial /\ find(cell, "imperial") # 0
                  THEN ElementAt(cell, find(cell, "imperial"))
                  ELSE cell
        parts == SplitAtBr(target)
    IN  IF Len(parts) = 2
        THEN [front |-> get_clean_text(parts[1]), rear |-> get_clean_text(parts[2])]
        ELSE [front |-> get_clean_text(target), rear |-> get_clean_text(target)]

\* get_staggered_data: the (front, rear) pair of a table cell
get_staggered_data(cell, is_imperial) ==
    LET target == IF is_imperial /\ find(cell, "imperial") # 0
                  THEN ElementAt(cell, find(cell, "imperial"))
                  ELSE cell
        rear_data_span == find(target, "rear-tire-data")
        parts == SplitAtBr(target)
    IN  IF rear_data_span # 0
        THEN [front |-> get_clean_text(Decompose(target, rear_data_span)),
              rear  |-> get_clean_text(ElementAt(target, rear_data_span))]
        ELSE IF Len(parts) = 2
        THEN [front |-> get_clean_text(parts[1]), rear |-> get_clean_text(parts[2])]
        ELSE [front |-> get_clean_text(target), rear |-> get_clean_text(target)]

\* the table cells of the model: well-nested markup of at most MaxTokens
\* tokens between the tags of the cell
SpanTokens == {SpanOpen(c) : c \in {"imperial", "rear-tire-data", "badge"}}
LeafTokens == {Br, Text(<<"3", "5">>), Text(<<"4", "0">>), Text(<<" ">>)}

\* the markup of k tokens that closes the `depth` spans open before it and
\* every span it opens
RECURSIVE WellNested(_, _)
WellNested(k, depth) ==
    IF k = 0 THEN (IF depth = 0 THEN {<<>>} ELSE {})
    ELSE IF depth > k THEN {}
    ELSE {<<t>> \o r : t \in LeafTokens, r \in WellNested(k - 1, depth)}
         \cup {<<t>> \o r : t \in SpanTokens, r \in WellNested(k - 1, depth + 1)}
         \cup (IF depth = 0 THEN {}
               ELSE {<<SpanClose>> \o r : r \in WellNested(k - 1, depth - 1)})

Cells ==
    {<<TdOpen>> \o inner \o <<TdClose>> :
        inner \in UNION {WellNested(k, 0) : k \in 0..MaxTokens}}

\* A rendered page as parse_vehicle_data looks at it.  title: the
\* h1#title-header is absent, present with a numeric data-year ("ok") or
\* present without one ("no_year").  panels: the div.panel elements in
\* document order, each with id (starts with 'trim-' or not), region (the
\* region-trim-* class it carries, "none" for none), hdr (it has a
\* div.panel-hdr) and table (no table.table-ws, one without tbody, or one
\* with tbody).
PanelSet ==
    [id : {"trim", "other"}, region : {"usdm", "eudm", "none"},
     hdr : BOOLEAN, table : {"none", "no_tbody", "body"}]

PageSet ==
    [title : {"absent", "ok", "no_year"},
     panels : UNION {[1..k -> PanelSet] : k \in 0..MaxPanels}]

\* for panel in soup.find_all('div', class_='panel', id=...startswith('trim-')):
\* a panel without the region-trim-usdm class is passed over; panel_hdr.find
\* raises AttributeError when the panel has no div.panel-hdr; a panel
\* without table or tbody is passed over; else its record is appended.  A
\* record is known by the position of its panel in the document.
RECURSIVE PanelLoop(_, _, _)
PanelLoop(panels, i, results) ==
    IF i > Len(panels) THEN [raised |-> FALSE, records |-> results]
    ELSE LET panel == panels[i]
         IN  IF panel.id # "trim" THEN PanelLoop(panels, i + 1, results)
             ELSE IF panel.region # "usdm" THEN PanelLoop(panels, i + 1, results)
             ELSE IF ~panel.hdr THEN [raised |-> TRUE, records |-> <<>>]
             ELSE IF panel.table # "body" THEN PanelLoop(panels, i + 1, results)
             ELSE PanelLoop(panels, i + 1, Append(results, [trim |-> i]))

\* parse_vehicle_data: [] without the title; int(h1.get('data-year')) raises
\* without a numeric data-year; else the records of the panel loop
parse_vehicle_data(html_content) ==
    IF html_content.title = "absent" THEN [raised |-> FALSE, records |-> <<>>]
    ELSE IF html_content.title = "no_year" THEN [raised |-> TRUE, records |-> <<>>]
    ELSE PanelLoop(html_content.panels, 1, <<>>)

\* a call of one of the parsing functions and what it returned
NoCall ==
    [fn |-> "none", num_str |-> None, cell |-> <<>>, is_imperial |-> FALSE,
     html_content |-> [title |-> "absent", panels |-> <<>>]]

NoResult ==
    [kind |-> "none", num |-> None, front |-> None, rear |-> None,
     records |-> <<>>]

\* the calls of the model, by function
FormatNumberCall(x) == [NoCall EXCEPT !.fn = "format_number", !.num_str = x]

GetStaggeredDataCall(c, b) ==
    [NoCall EXCEPT !.fn = "get_staggered_data", !.cell = c, !.is_imperial = b]

ParseVehicleDataCall(h) ==
    [NoCall EXCEPT !.fn = "parse_vehicle_data", !.html_content = h]

VARIABLES
    run,         \* number of the current run of main (1, 2, ...)
    nworkers,    \* args.workers of the current run
    mainPc,      \* position of main: "start", "join", "finished", "interrupted"
    dirs,        \* results directory: the (make, year) directories that exist
    files,       \* results directory: the StoredFile paths that exist
    done,        \* results directory: the .done markers that exist
    queue,       \* task_queue: the FIFO of (make, year) tasks
    unfinished,  \* task_queue's count of tasks put and not yet task_done
    worker,      \* per worker: position and locals of process_make_year
    prevEnd,     \* history: how the previous run ended ("none" in the first)
    doneAtStart, \* history: the markers that existed when this run started
    enqueued,    \* history: per task, how often this run put it on the queue
    visited,     \* history: tasks whose discovery navigated in this run
    calls,       \* history: per target, scrape_vehicle_page calls in this run
    taken,       \* history: per task, how often a worker got it in this run
    arg,         \* a call of a parsing function: the function and its input
    result,      \* what that call returned (NoResult before the call)
    last         \* history: what the step just taken did (see NoLast)

vars == <<run, nworkers, mainPc, dirs, files, done, queue, unfinished, worker,
          prevEnd, doneAtStart, enqueued, visited, calls, taken, arg, result,
          last>>

fsVars == <<dirs, files, done>>
histVars == <<prevEnd, doneAtStart, enqueued, visited, calls, taken>>
callVars == <<arg, result>>

\* ------------------------------------------------------------ worker record
\* the record of a step that was no pass of the retry loop and no skip; for
\* those: the worker w, the Target, the 1-based number n of the attempt, its
\* classification and cause ("timeout": PlaywrightTimeoutError, "detection":
\* check_for_detection returned True, "exception": another exception was
\* raised, msgDetection telling whether its text contains "detection"), the
\* backoff slept, whether the loaded page
\* carried a bot-challenge indicator, whether it was parsed, the number of
\* TrimRecords and what the write of save_vehicle_data did ("none" when it
\* was not called); total is the backoff slept so far in this call of
\* scrape_vehicle_page, this pass included; noPanel tells that the page
\* loaded and wait_for_selector found no '.trims-list .panel' in its time
NoLast ==
    [w |-> 0, class |-> "None", cause |-> "none", msgDetection |-> FALSE,
     n |-> 0, sleep |-> 0, total |-> 0,
     indicator |-> FALSE, noPanel |-> FALSE, extracted |-> FALSE,
     records |-> 0, saved |-> "none", target |-> <<>>]

FreshWorker(pc) ==
    [pc |-> pc, task |-> NoTask, models |-> <<>>, idx |-> 0, attempt |-> 0,
     session |-> FALSE, discovery |-> "none", loopDone |-> FALSE,
     exit |-> "none", backoff |-> 0]

\* the state when main is entered with args.workers = n and an empty
\* results directory
MainEntered(n) ==
    /\ run = 1
    /\ nworkers = n
    /\ mainPc = "start"
    /\ dirs = {}
    /\ files = {}
    /\ done = {}
    /\ queue = <<>>
    /\ unfinished = 0
    /\ worker = [w \in Workers |-> FreshWorker("unborn")]
    /\ prevEnd = "none"
    /\ doneAtStart = {}
    /\ enqueued = [t \in Tasks |-> 0]
    /\ visited = {}
    /\ calls = [g \in Targets |-> 0]
    /\ taken = [t \in Tasks |-> 0]
    /\ last = NoLast

\* the program started; the parsing functions are not looked at apart
InitWith(n) ==
    /\ MainEntered(n)
    /\ arg = NoCall
    /\ result = NoResult

Init == \E n \in Workers : InitWith(n)


\* ------------------------------------------------------------------- store
\* main's filter with the marker test lost: every task is kept
tasks_to_do_unfiltered(tasks, markers) == tasks

\* done_path.exists() for every task of a sequence: main's filter loop
RECURSIVE tasks_to_do(_, _)
tasks_to_do(tasks, markers) ==
    IF tasks = <<>> THEN <<>>
    ELSE LET t == Head(tasks)
             rest == tasks_to_do(Tail(tasks), markers)
         IN  IF DonePath(t[1], t[2]) \notin markers THEN <<t>> \o rest ELSE rest

\* the existence test lost: no file is ever found
FileNeverExists(store, path) == FALSE

\* filepath.exists() in the model loop: the idempotence signal
FileExists(store, path) == path \in store

\* save_vehicle_data: mkdir(parents, exist_ok), then open(filepath, 'w') and
\* json.dump.  write is what the write does: "ok", "open_error" (open raises,
\* nothing is created) or "dump_error" (the file was created by open and the
\* dump raises part-way).  Returns the new store and the return value.
save_vehicle_data(ds, fs, make, model, year, write) ==
    LET path == FilePath(make, model, year)
    IN  [dirs  |-> ds \cup {DirPath(make, year)},
         files |-> IF write \in {"ok", "dump_error"} THEN fs \cup {path} ELSE fs,
         ok    |-> (write = "ok")]

\* a touch that makes the missing directories itself
TouchMakesParents(ds, make, year) == TRUE

\* done_path.touch(): creates the marker when its directory exists, raises
\* FileNotFoundError otherwise (touch makes no directories)
TouchSucceeds(ds, make, year) == DirPath(make, year) \in ds

\* -------------------------------------------------------- fetch controller
\* a rendered page as check_for_detection sees it: marker = the content holds
\* one of the detection_indicators, url = page.url holds "challenge",
\* "verify" or "captcha"
Pages == [marker : BOOLEAN, url : BOOLEAN]

\* check_for_detection: every return statement of the function returns False
check_for_detection(page) ==
    IF page.marker THEN FALSE
    ELSE IF page.url THEN FALSE
    ELSE FALSE

\* a delay that grows by the initial delay each time instead of doubling
BackoffDelayLinear(attempt) == INITIAL_BACKOFF_DELAY_SECONDS * (attempt + 1)

\* delay = INITIAL_BACKOFF_DELAY_SECONDS * (2 ** attempt), attempt 0-based
BackoffDelay(attempt) == INITIAL_BACKOFF_DELAY_SECONDS * (2 ^ attempt)

\* the retry branches without their give-up test
RetryForever(attempt) ==
    [class |-> "Retryable", sleep |-> INITIAL_BACKOFF_DELAY_SECONDS * (2 ^ attempt)]

\* the shared shape of the three retry branches: give up (break) on the last
\* attempt, else sleep for the backoff delay and go round the loop again
RetryOrGiveUp(attempt) ==
    IF attempt + 1 = MAX_RETRIES
    THEN [class |-> "Failed", sleep |-> 0]
    ELSE [class |-> "Retryable", sleep |-> BackoffDelay(attempt)]

\* except Exception as e: retried when "detection" is in str(e).lower(),
\* else break
OnException(attempt, msgDetection) ==
    IF msgDetection THEN RetryOrGiveUp(attempt)
    ELSE [class |-> "Fatal", sleep |-> 0]

\* What one pass of the try body meets.  goto: page.goto returns ("ok"),
\* raises PlaywrightTimeoutError ("timeout") or another exception ("error").
\* after: what follows a loaded page that was not flagged: wait_for_selector
\* times out ("timeout"), or wait_for_selector, parse_vehicle_data or the
\* mkdir of save_vehicle_data raises another exception ("error"), or the
\* page is parsed ("ok") into `records` TrimRecords.  msgDetection: the text
\* of the raised exception contains "detection".
AttemptEvents ==
    {[goto |-> "timeout", msgDetection |-> FALSE, page |-> [marker |-> FALSE, url |-> FALSE],
      after |-> "ok", records |-> 0, write |-> "ok"]}
    \cup
    {[goto |-> "error", msgDetection |-> d, page |-> [marker |-> FALSE, url |-> FALSE],
      after |-> "ok", records |-> 0, write |-> "ok"] : d \in BOOLEAN}
    \cup
    {[goto |-> "ok", msgDetection |-> FALSE, page |-> p,
      after |-> "timeout", records |-> 0, write |-> "ok"] : p \in Pages}
    \cup
    {[goto |-> "ok", msgDetection |-> d, page |-> p,
      after |-> "error", records |-> 0, write |-> "ok"] : d \in BOOLEAN, p \in Pages}
    \cup
    {[goto |-> "ok", msgDetection |-> FALSE, page |-> p,
      after |-> "ok", records |-> 0, write |-> "ok"] : p \in Pages}
    \cup
    {[goto |-> "ok", msgDetection |-> FALSE, page |-> p,
      after |-> "ok", records |-> 1, write |-> wr] :
        p \in Pages, wr \in {"ok", "open_error", "dump_error"}}

\* a save that returned False sent round the retry loop like a timeout
RetryFailedSave(ev, attempt) ==
    IF ev.records > 0 /\ ev.write # "ok" THEN RetryOrGiveUp(attempt)
    ELSE [class |-> "Success", sleep |-> 0]

\* the end of the try body once parse_vehicle_data has returned: whether
\* data is empty, was saved, or save_vehicle_data returned False, the next
\* statement is `return`
ReturnAfterExtraction(ev, attempt) == [class |-> "Success", sleep |-> 0]

\* One pass of the body of scrape_vehicle_page's for loop (attempt 0-based):
\* the classification of the attempt, the backoff it sleeps, and whether the
\* page was parsed and save_vehicle_data called.
ScrapeAttempt(ev, attempt) ==
    LET base == [class |-> "Success", cause |-> "none", sleep |-> 0,
                 extracted |-> FALSE, records |-> 0, save |-> FALSE]
        with(r, cause) == [base EXCEPT !.class = r.class, !.sleep = r.sleep,
                                       !.cause = cause]
    IN  CASE ev.goto = "timeout" -> with(RetryOrGiveUp(attempt), "timeout")
          [] ev.goto = "error" ->
                with(OnException(attempt, ev.msgDetection), "exception")
          [] OTHER ->
                IF check_for_detection(ev.page)
                THEN IF attempt + 1 = MAX_RETRIES
                     THEN with(OnException(attempt, TRUE), "detection")
                     ELSE with([class |-> "Retryable",
                                sleep |-> BackoffDelay(attempt)], "detection")
                ELSE CASE ev.after = "timeout" ->
                            with(RetryOrGiveUp(attempt), "timeout")
                       [] ev.after = "error" ->
                            with(OnException(attempt, ev.msgDetection), "exception")
                       [] OTHER ->
                            [with(ReturnAfterExtraction(ev, attempt), "none")
                                EXCEPT !.extracted = TRUE,
                                       !.records = ev.records,
                                       !.save = (ev.records > 0)]

\* the exception re-raised once the retries are used up
PropagatesOnFailed(class) == class = "Failed"

\* whether scrape_vehicle_page raises into process_make_year: it never does,
\* Success returns and the except clauses break to the final log line
Propagates(class) == FALSE

\* for attempt in range(MAX_RETRIES): another pass follows a pass that neither
\* returned nor broke out, while the range lasts
LoopContinues(class, attempt) ==
    class = "Retryable" /\ attempt + 1 < MAX_RETRIES


\* ---------------------------------------------------------------- main
Count(seq, x) == Cardinality({i \in 1..Len(seq) : seq[i] = x})

\* main up to the start of the workers: filter the cross-product by the
\* markers, return when nothing is left, else fill the queue and create the
\* worker tasks
MainStart ==
    /\ mainPc = "start"
    /\ LET todo == tasks_to_do(all_tasks, done)
       IN  /\ doneAtStart' = done
           /\ enqueued' = [t \in Tasks |-> Count(todo, t)]
           /\ IF todo = <<>>
              THEN /\ mainPc' = "finished"
                   /\ UNCHANGED <<queue, unfinished, worker>>
              ELSE /\ mainPc' = "join"
                   /\ queue' = todo
                   /\ unfinished' = Len(todo)
                   /\ worker' = [w \in Workers |->
                                   FreshWorker(IF w <= nworkers THEN "idle"
                                               ELSE "unborn")]
    /\ last' = NoLast
    /\ UNCHANGED <<run, nworkers, fsVars, prevEnd, visited, calls, taken>>
    /\ UNCHANGED callVars

\* await task_queue.join() returns; worker.cancel() for every worker, gather
MainJoin ==
    /\ mainPc = "join"
    /\ unfinished = 0
    /\ mainPc' = "finished"
    /\ worker' = [w \in Workers |->
                    IF worker[w].pc \in {"returned", "unborn"} THEN worker[w]
                    ELSE [worker[w] EXCEPT !.pc = "cancelled"]]
    /\ UNCHANGED <<run, nworkers, fsVars, queue, unfinished, histVars>>
    /\ last' = NoLast
    /\ UNCHANGED callVars

InTask(w) ==
    worker[w].pc \in {"launch", "discover", "loop", "scrape", "cleanup"}

\* KeyboardInterrupt while main waits in join: asyncio.run cancels main and
\* every worker task; a worker inside a Task gets CancelledError at the await
\* it is suspended in, which no except clause of process_make_year catches,
\* so only its finally block runs (session closed, task_done) and it ends.
\* The last run modelled is not interrupted.
Interrupt ==
    /\ mainPc = "join"
    /\ run < MaxRuns
    /\ mainPc' = "interrupted"
    /\ unfinished' = unfinished - Cardinality({w \in Workers : InTask(w)})
    /\ worker' = [w \in Workers |->
                    IF worker[w].pc \in {"returned", "unborn"} THEN worker[w]
                    ELSE [worker[w] EXCEPT !.pc = "cancelled",
                                           !.session = FALSE]]
    /\ last' = NoLast
    /\ UNCHANGED <<run, nworkers, fsVars, queue, histVars>>
    /\ UNCHANGED callVars

\* the program is started again on the same results directory, with
\* args.workers = n
NextRun(n) ==
    /\ mainPc \in {"finished", "interrupted"}
    /\ run < MaxRuns
    /\ run' = run + 1
    /\ nworkers' = n
    /\ mainPc' = "start"
    /\ queue' = <<>>
    /\ unfinished' = 0
    /\ worker' = [w \in Workers |-> FreshWorker("unborn")]
    /\ prevEnd' = mainPc
    /\ doneAtStart' = {}
    /\ enqueued' = [t \in Tasks |-> 0]
    /\ visited' = {}
    /\ calls' = [g \in Targets |-> 0]
    /\ taken' = [t \in Tasks |-> 0]
    /\ last' = NoLast
    /\ UNCHANGED fsVars
    /\ UNCHANGED callVars

\* ------------------------------------------------------------- the worker
Set(w, rec) == worker' = [worker EXCEPT ![w] = rec]

\* a get that leaves the item on the queue
QueueAfterPeek(q) == q

\* task_queue.get(): the item at the head is removed from the queue
QueueAfterGet(q) == Tail(q)

\* while not task_queue.empty(): make, year = await task_queue.get()
\* (get on a non-empty asyncio.Queue returns without suspending)
Dequeue(w) ==
    /\ worker[w].pc = "idle"
    /\ queue # <<>>
    /\ queue' = QueueAfterGet(queue)
    /\ Set(w, [FreshWorker("launch") EXCEPT !.task = Head(queue)])
    /\ taken' = [taken EXCEPT ![Head(queue)] = @ + 1]
    /\ UNCHANGED <<run, nworkers, mainPc, fsVars, unfinished, prevEnd,
                   doneAtStart, enqueued, visited, calls>>
    /\ last' = NoLast
    /\ UNCHANGED callVars

\* the while condition fails: the worker coroutine returns
Return(w) ==
    /\ worker[w].pc = "idle"
    /\ queue = <<>>
    /\ Set(w, [worker[w] EXCEPT !.pc = "returned"])
    /\ UNCHANGED <<run, nworkers, mainPc, fsVars, queue, unfinished, histVars>>
    /\ last' = NoLast
    /\ UNCHANGED callVars

\* async_playwright().start(), chromium.launch, setup_stealth_page and the
\* first pacing delay: the session is up, or one of the calls raises with
\* whatever was started so far still open
Launch(w) ==
    /\ worker[w].pc = "launch"
    /\ \E ok \in BOOLEAN, part \in BOOLEAN :
          Set(w, IF ok
                 THEN [worker[w] EXCEPT !.pc = "discover", !.session = TRUE]
                 ELSE [worker[w] EXCEPT !.pc = "cleanup", !.session = part,
                                        !.exit = "exception"])
    /\ UNCHANGED <<run, nworkers, mainPc, fsVars, queue, unfinished, histVars>>
    /\ last' = NoLast
    /\ UNCHANGED callVars

\* What get_models_for_make_year meets: page.goto (or a later wait) times
\* out, a call raises another exception, or the model options are read.
DiscoveryEvents ==
    {[res |-> "timeout", page |-> [marker |-> FALSE, url |-> FALSE], models |-> <<>>]}
    \cup
    {[res |-> "error", page |-> [marker |-> FALSE, url |-> FALSE], models |-> <<>>]}
    \cup
    {[res |-> "ok", page |-> p, models |-> ms] : p \in Pages, ms \in ModelLists}

\* get_models_for_make_year as process_make_year sees it: the model list, or
\* the except clause the raised exception lands in
get_models_for_make_year(ev) ==
    CASE ev.res = "timeout" -> [outcome |-> "timeout", models |-> <<>>]
      [] ev.res = "error"   -> [outcome |-> "exception", models |-> <<>>]
      [] OTHER ->
            IF check_for_detection(ev.page)
            THEN [outcome |-> "exception", models |-> <<>>]
            ELSE [outcome |-> "ok", models |-> ev.models]

\* models = await get_models_for_make_year(page, make, year)
Discover(w) ==
    /\ worker[w].pc = "discover"
    /\ \E ev \in DiscoveryEvents :
          LET r == get_models_for_make_year(ev)
          IN  Set(w, IF r.outcome = "ok"
                     THEN [worker[w] EXCEPT !.pc = "loop", !.idx = 1,
                                            !.models = r.models,
                                            !.discovery = "ok"]
                     ELSE [worker[w] EXCEPT !.pc = "cleanup",
                                            !.discovery = r.outcome,
                                            !.exit = r.outcome])
    /\ visited' = visited \cup {worker[w].task}
    /\ last' = NoLast
    /\ UNCHANGED <<run, nworkers, mainPc, fsVars, queue, unfinished, prevEnd,
                   doneAtStart, enqueued, calls, taken>>
    /\ UNCHANGED callVars

CurrentTarget(w) ==
    <<worker[w].task[1], worker[w].models[worker[w].idx], worker[w].task[2]>>

InLoop(w) ==
    worker[w].pc = "loop" /\ worker[w].idx <= Len(worker[w].models)

\* for model in models: one iteration that finds the file and continues
Skip(w, trace) ==
    /\ InLoop(w)
    /\ LET g == CurrentTarget(w)
       IN  /\ FileExists(files, FilePath(g[1], g[2], g[3]))
           /\ Set(w, [worker[w] EXCEPT !.idx = @ + 1])
           /\ last' = IF trace
                      THEN [NoLast EXCEPT !.w = w, !.class = "Skipped",
                                          !.target = g]
                      ELSE NoLast
    /\ UNCHANGED <<run, nworkers, mainPc, fsVars, queue, unfinished, histVars>>
    /\ UNCHANGED callVars

\* for model in models: one iteration that calls scrape_vehicle_page
BeginScrape(w) ==
    /\ InLoop(w)
    /\ LET g == CurrentTarget(w)
       IN  /\ ~FileExists(files, FilePath(g[1], g[2], g[3]))
           /\ Set(w, [worker[w] EXCEPT !.pc = "scrape", !.attempt = 0])
           /\ calls' = [calls EXCEPT ![g] = @ + 1]
    /\ last' = NoLast
    /\ UNCHANGED <<run, nworkers, mainPc, fsVars, queue, unfinished, prevEnd,
                   doneAtStart, enqueued, visited, taken>>
    /\ UNCHANGED callVars

\* one pass of scrape_vehicle_page's retry loop, its backoff sleep included;
\* when the function ends, the pacing delay and the step to the next model
Attempt(w, trace) ==
    /\ worker[w].pc = "scrape"
    /\ worker[w].attempt < MAX_RETRIES
    /\ \E ev \in AttemptEvents :
          LET g == CurrentTarget(w)
              a == worker[w].attempt
              r == ScrapeAttempt(ev, a)
              st == IF r.save
                    THEN save_vehicle_data(dirs, files, g[1], g[2], g[3], ev.write)
                    ELSE [dirs |-> dirs, files |-> files, ok |-> FALSE]
              rec == [w |-> w, class |-> r.class, cause |-> r.cause,
                      msgDetection |-> (r.cause = "exception" /\ ev.msgDetection),
                      n |-> a + 1,
                      sleep |-> r.sleep,
                      total |-> worker[w].backoff + r.sleep,
                      indicator |-> (ev.goto = "ok"
                                      /\ (ev.page.marker \/ ev.page.url)),
                      noPanel |-> (ev.goto = "ok" /\ ev.after = "timeout"),
                       extracted |-> r.extracted, records |-> r.records,
                       saved |-> IF r.save THEN ev.write ELSE "none",
                       target |-> g]
          IN  /\ dirs' = st.dirs
              /\ files' = st.files
              /\ last' = IF trace THEN rec ELSE NoLast
              /\ Set(w, IF LoopContinues(r.class, a)
                        THEN [worker[w] EXCEPT !.attempt = a + 1,
                                               !.backoff = @ + r.sleep]
                        ELSE IF Propagates(r.class)
                        THEN [worker[w] EXCEPT !.pc = "cleanup", !.attempt = 0,
                                               !.backoff = 0,
                                               !.exit = "exception"]
                        ELSE [worker[w] EXCEPT !.pc = "loop", !.attempt = 0,
                                               !.backoff = 0,
                                               !.idx = @ + 1])
    /\ UNCHANGED <<run, nworkers, mainPc, done, queue, unfinished, histVars>>
    /\ UNCHANGED callVars

\* the touch moved into the body of the model loop
ModelsStarted(models, idx) == TRUE

\* the for loop over the models has run out: idx is past the last model
ModelsExhausted(models, idx) == idx > Len(models)

\* the model loop is over: done_path.touch(), which raises into the
\* except Exception clause when the directory is missing
Mark(w) ==
    /\ worker[w].pc = "loop"
    /\ ModelsExhausted(worker[w].models, worker[w].idx)
    /\ LET t == worker[w].task
       IN  IF TouchSucceeds(dirs, t[1], t[2])
           THEN /\ done' = done \cup {DonePath(t[1], t[2])}
                /\ Set(w, [worker[w] EXCEPT !.pc = "cleanup", !.loopDone = TRUE,
                                            !.exit = "normal"])
           ELSE /\ done' = done
                /\ Set(w, [worker[w] EXCEPT !.pc = "cleanup", !.loopDone = TRUE,
                                            !.exit = "exception"])
    /\ UNCHANGED <<run, nworkers, mainPc, dirs, files, queue, unfinished, histVars>>
    /\ last' = NoLast
    /\ UNCHANGED callVars

\* the except clauses re-raising: a failed Task ends the worker coroutine
AfterTaskReraised(exit) == IF exit = "normal" THEN "idle" ELSE "returned"

\* where the worker is after the try statement of a Task that left it by
\* `exit`: both except clauses only log, so every exit falls through the
\* finally block to the while test
AfterTask(exit) == "idle"

\* task_done reached only when the try body ended without an exception
task_done_on_success(unfinished_tasks, exit) ==
    IF exit = "normal" THEN unfinished_tasks - 1 ELSE unfinished_tasks

\* task_queue.task_done(), the statement after the three closes of the
\* finally block: the queue's count of unfinished tasks drops by one however
\* the try statement was left
task_done(unfinished_tasks, exit) == unfinished_tasks - 1

\* the closes at the end of the try body instead of in finally: a Task that
\* leaves by an exception keeps its session
SessionClosedOnSuccess(session, exit) == session /\ exit # "normal"

\* whether the session is still up after the finally block: page.close(),
\* browser_instance.close() and playwright_instance.stop() are called for
\* whatever was started, by whichever way the try statement was left
SessionAfterFinally(session, exit) == FALSE

\* finally: close the page, the browser and playwright, task_queue.task_done()
Cleanup(w) ==
    /\ worker[w].pc = "cleanup"
    /\ unfinished' = task_done(unfinished, worker[w].exit)
    /\ Set(w, [FreshWorker(AfterTask(worker[w].exit)) EXCEPT
                  !.session = SessionAfterFinally(worker[w].session,
                                                  worker[w].exit)])
    /\ UNCHANGED <<run, nworkers, mainPc, fsVars, queue, histVars>>
    /\ last' = NoLast
    /\ UNCHANGED callVars

WorkerStep(w, trace) ==
    \/ Dequeue(w)
    \/ Return(w)
    \/ Launch(w)
    \/ Discover(w)
    \/ Skip(w, trace)
    \/ BeginScrape(w)
    \/ Attempt(w, trace)
    \/ Mark(w)
    \/ Cleanup(w)

\* the program run with any number of workers; `last` records skips and
\* attempts only in FetchSpec
Next ==
    \/ MainStart
    \/ MainJoin
    \/ Interrupt
    \/ \E n \in Workers : NextRun(n)
    \/ \E w \in Workers : WorkerStep(w, FALSE)

Spec == Init /\ [][Next]_vars

\* the program run with --workers 1, every skip and every pass of the retry
\* loop recorded in `last`
FetchInit == InitWith(1)

FetchNext ==
    \/ MainStart
    \/ MainJoin
    \/ Interrupt
    \/ NextRun(1)
    \/ WorkerStep(1, TRUE)

FetchSpec == FetchInit /\ [][FetchNext]_vars

TypeOK ==
    /\ run \in 1..MaxRuns
    /\ nworkers \in Workers
    /\ prevEnd \in {"none", "finished", "interrupted"}
    /\ mainPc \in {"start", "join", "finished", "interrupted"}
    /\ dirs \subseteq Tasks
    /\ done \subseteq Tasks
    /\ files \subseteq Paths
    /\ unfinished \in 0..Len(all_tasks)
    /\ \A w \in Workers : worker[w].attempt \in 0..MAX_RETRIES


\* the parsing functions alone: a call is drawn, then made
progVars ==
    <<run, nworkers, mainPc, dirs, files, done, queue, unfinished, worker,
      prevEnd, doneAtStart, enqueued, visited, calls, taken, last>>

ParseInit ==
    /\ MainEntered(1)
    /\ result = NoResult
    /\ \/ arg = FormatNumberCall(None)
       \/ \E t \in Strings(MaxLen) : arg = FormatNumberCall(Str(t))
       \/ \E c \in Cells, b \in BOOLEAN : arg = GetStaggeredDataCall(c, b)
       \/ \E h \in PageSet : arg = ParseVehicleDataCall(h)

CallFormatNumber ==
    /\ arg.fn = "format_number"
    /\ result = NoResult
    /\ result' = [NoResult EXCEPT !.kind = "value",
                                  !.num = format_number(arg.num_str)]
    /\ UNCHANGED <<progVars, arg>>

CallGetStaggeredData ==
    /\ arg.fn = "get_staggered_data"
    /\ result = NoResult
    /\ LET r == get_staggered_data(arg.cell, arg.is_imperial)
       IN  result' = [NoResult EXCEPT !.kind = "value", !.front = r.front,
                                      !.rear = r.rear]
    /\ UNCHANGED <<progVars, arg>>

CallParseVehicleData ==
    /\ arg.fn = "parse_vehicle_data"
    /\ result = NoResult
    /\ LET r == parse_vehicle_data(arg.html_content)
       IN  result' = [NoResult EXCEPT !.kind = IF r.raised THEN "raise" ELSE "value",
                                      !.records = r.records]
    /\ UNCHANGED <<progVars, arg>>

ParseNext ==
    \/ CallFormatNumber
    \/ CallGetStaggeredData
    \/ CallParseVehicleData

ParseSpec == ParseInit /\ [][ParseNext]_vars

\* the fetch controller with the scheduling of the event loop: a worker that
\* can take a step eventually takes one (every await returns or raises)
FairFetchSpec == FetchSpec /\ WF_vars(WorkerStep(1, TRUE))

\* the program with the scheduling of the event loop, any number of workers
FairSpec == Spec /\ \A w \in Workers : WF_vars(WorkerStep(w, FALSE))

\* the same with main scheduled too: main goes on from its start, and from
\* join once the count of unfinished tasks is zero
FairRunSpec == FairSpec /\ WF_vars(MainStart) /\ WF_vars(MainJoin)

\* ------------------------------------------------------------------ claims
Navigated == visited # {} \/ \E g \in Targets : calls[g] > 0

TaskOf(g) == <<g[1], g[3]>>

\* C1: a run that follows a run which went to completion on the same results
\* directory performs no navigation at all: no discovery and no page fetch.
\* (Stated as claimed; the code violates it.)
C1_SecondRunNoNavigation ==
    (run > 1 /\ prevEnd = "finished") => ~Navigated

\* C2: once a worker has finished iterating over the discovered model list
\* of its Task and is about to leave the Task, the Task's CompletionMarker
\* exists.  (Stated as claimed; the code violates it.)
C2_MarkerAfterLoop ==
    \A w \in Workers :
        (worker[w].pc = "cleanup" /\ worker[w].loopDone)
            => DonePath(worker[w].task[1], worker[w].task[2]) \in done

\* C3: a (make, year) whose marker exists when main starts is never put on
\* the queue, never held by a worker, and neither discovered nor fetched in
\* that run, whether or not its StoredFiles exist; every other pair of the
\* cross-product is put on the queue exactly once.
C3_MarkerHonoured ==
    \A t \in Tasks :
        /\ DonePath(t[1], t[2]) \in doneAtStart =>
              /\ enqueued[t] = 0
              /\ t \notin Range(queue)
              /\ t \notin visited
              /\ \A w \in Workers : worker[w].task # t
              /\ \A m \in Models : calls[<<t[1], m, t[2]>>] = 0
        /\ (mainPc # "start" /\ DonePath(t[1], t[2]) \notin doneAtStart) =>
              enqueued[t] = 1

\* C3 witness: a run in progress in which one pair was left out because of
\* its marker although one of its StoredFiles is missing, and another pair
\* was queued
C3_Witness ==
    /\ mainPc = "join"
    /\ \E t \in Tasks, m \in Models :
          /\ DonePath(t[1], t[2]) \in doneAtStart
          /\ FilePath(t[1], m, t[2]) \notin files
    /\ \E t \in Tasks : enqueued[t] = 1

\* C4: a worker that reaches a Target whose StoredFile exists goes on without
\* calling scrape_vehicle_page and leaves the store as it is; a worker that
\* reaches a Target whose file is missing calls scrape_vehicle_page for it,
\* and no Target gets more than one call in a run.
C4_AtExistingFile(w) ==
    LET g == CurrentTarget(w)
    IN  FilePath(g[1], g[2], g[3]) \in files =>
            /\ files' = files /\ dirs' = dirs /\ done' = done
            /\ calls' = calls
            /\ worker'[w].pc # "scrape"

C4_AtMissingFile(w) ==
    LET g == CurrentTarget(w)
    IN  FilePath(g[1], g[2], g[3]) \notin files =>
            \/ worker'[w].pc = "cancelled"
            \/ /\ worker'[w].pc = "scrape"
               /\ calls'[g] = calls[g] + 1

C4_PerTargetIdempotence ==
    /\ [](\A g \in Targets : calls[g] <= 1)
    /\ [][\A w \in Workers :
            InLoop(w) => (C4_AtExistingFile(w) /\ C4_AtMissingFile(w))]_vars

\* C4 witness: a Target was just skipped because its file exists, in a run
\* that made no call for it
C4_Witness ==
    /\ last.class = "Skipped"
    /\ FilePath(last.target[1], last.target[2], last.target[3]) \in files
    /\ calls[last.target] = 0

\* C5: the retry loop makes at most MAX_RETRIES attempts for a Target; a
\* timeout on an attempt before the last is Retryable and is followed by the
\* next attempt; a timeout on the last attempt ends in Failed; after Success,
\* Fatal or Failed the worker has left the retry loop; and a worker inside
\* the retry loop eventually leaves it.
InRetryLoop == \E w \in Workers : worker[w].pc = "scrape"

C5_Safety ==
    /\ last.n <= MAX_RETRIES
    /\ \A w \in Workers : worker[w].attempt < MAX_RETRIES
    /\ (last.cause = "timeout" /\ last.n < MAX_RETRIES) =>
          /\ last.class = "Retryable"
          /\ worker[last.w].pc = "scrape"
          /\ worker[last.w].attempt = last.n
          /\ CurrentTarget(last.w) = last.target
    /\ (last.cause = "timeout" /\ last.n = MAX_RETRIES) =>
          last.class = "Failed"
    /\ last.class \in {"Success", "Fatal", "Failed"} =>
          /\ worker[last.w].pc = "loop"
          /\ calls[last.target] = 1

C5_BoundedRetry ==
    /\ []C5_Safety
    /\ (InRetryLoop ~> ~InRetryLoop)

\* C5 witness: the fifth attempt for a Target has just timed out
C5_Witness ==
    /\ last.class = "Failed"
    /\ last.cause = "timeout"
    /\ last.n = MAX_RETRIES

\* C6: when the retry loop ends in Failed for a Target, no StoredFile exists
\* at the Target's path, the Target got its single call, and the worker is in
\* the model loop at the model after it; a worker leaves a discovered model
\* list only after the last model.
C6_FailureIsLocal ==
    /\ last.class = "Failed" =>
          /\ FilePath(last.target[1], last.target[2], last.target[3]) \notin files
          /\ calls[last.target] = 1
          /\ worker[last.w].pc = "loop"
          /\ worker[last.w].idx >= 2
          /\ worker[last.w].models[worker[last.w].idx - 1] = last.target[2]
          /\ worker[last.w].task = TaskOf(last.target)
    /\ \A w \in Workers :
          (worker[w].pc = "cleanup" /\ worker[w].discovery = "ok") =>
              worker[w].idx = Len(worker[w].models) + 1

\* C6 witness: a Target has just ended in Failed and another model of the
\* same Task is next
C6_Witness ==
    /\ last.class = "Failed"
    /\ InLoop(last.w)

\* C7: an attempt whose loaded page carries a bot-challenge indicator (a
\* phrase marker in the content or a challenge URL) is Retryable (Failed at
\* the cap): the page is not parsed and nothing is written.  (Stated as
\* claimed; the code violates it.)
C7_DetectionRetryable ==
    last.indicator =>
        /\ last.class \in {"Retryable", "Failed"}
        /\ ~last.extracted
        /\ last.saved = "none"

\* C8: an exception that is neither a timeout nor a detected challenge is
\* Fatal whatever its text: no backoff sleep, and the worker has left the
\* retry loop.  (Stated as claimed; the code violates it.)
C8_FatalFailFast ==
    last.cause = "exception" =>
        /\ last.class = "Fatal"
        /\ last.sleep = 0
        /\ worker[last.w].pc # "scrape"

\* C9: when discovery fails by timeout or by another exception, no Target of
\* the Task is fetched and the Task's marker exists when the worker leaves
\* the Task.  (Stated as claimed; the code violates it.)
C9_DiscoveryFailureMarked ==
    \A w \in Workers :
        (worker[w].pc = "cleanup" /\ worker[w].discovery \in {"timeout", "exception"})
            => /\ \A m \in Models :
                    calls[<<worker[w].task[1], m, worker[w].task[2]>>] = 0
               /\ DonePath(worker[w].task[1], worker[w].task[2]) \in done

\* C10: after an attempt that rendered and parsed the page into zero
\* TrimRecords, a StoredFile exists at the Target's path.  (Stated as
\* claimed; the code violates it.)
C10_EmptyResultPersisted ==
    (last.class = "Success" /\ last.extracted /\ last.records = 0) =>
        FilePath(last.target[1], last.target[2], last.target[3]) \in files

\* C11: a file exists at a StoredFile's path only if its content was written
\* completely: after a write that failed (open raised, or json.dump raised
\* part-way) no file exists at the Target's path, so the next run fetches the
\* Target again.  (Stated as claimed; the code violates it.)
C11_WriteAtomicity ==
    last.saved \in {"open_error", "dump_error"} =>
        FilePath(last.target[1], last.target[2], last.target[3]) \notin files

\* C12: a Task that fails (session launch, discovery, fetch, store write or
\* marker write) does not end its worker: from the end of the Task the worker
\* goes back to the while test, a worker at the while test never returns
\* while the queue is non-empty, and a worker that leaves a failed Task with
\* tasks still queued eventually holds a next Task (unless the other workers
\* take them all or the run is interrupted).
C12_FailedExit(w) ==
    worker[w].pc = "cleanup" /\ worker[w].exit \in {"timeout", "exception"}

C12_Step(w) ==
    /\ worker[w].pc = "cleanup" =>
          worker'[w].pc \in {"cleanup", "idle", "cancelled"}
    /\ (worker[w].pc = "idle" /\ queue # <<>>) =>
          worker'[w].pc \in {"idle", "launch", "cancelled"}

C12_WorkerSurvives ==
    /\ [][\A w \in Workers : C12_Step(w)]_vars
    /\ \A w \in Workers :
          (C12_FailedExit(w) /\ queue # <<>>)
              ~> (worker[w].pc \in {"launch", "cancelled"} \/ queue = <<>>)

\* C12 witness: the single worker of a run holds the second Task of the
\* cross-product after it left the first one without its marker, that is by
\* an exception or a discovery timeout
C12_Witness ==
    /\ nworkers = 1
    /\ worker[1].pc = "launch"
    /\ worker[1].task = all_tasks[2]
    /\ enqueued[all_tasks[1]] = 1
    /\ DonePath(all_tasks[1][1], all_tasks[1][2]) \notin done

\* C13: with any number of workers every Task put on the queue is got from
\* it by exactly one worker: a Task is on the queue or taken, never both and
\* never twice (nothing is put back), a Task is held only by a worker that
\* took it, a run that went to completion took every Task it queued, and a
\* worker at the while test does not stay there: it gets a Task, returns or
\* is cancelled.
C13_Holders(t) == {w \in Workers : worker[w].task = t}

C13_Safety ==
    \A t \in Tasks :
        /\ taken[t] <= 1
        /\ mainPc # "start" => Count(queue, t) + taken[t] = enqueued[t]
        /\ Cardinality(C13_Holders(t)) <= taken[t]
        /\ mainPc = "finished" => taken[t] = enqueued[t]

C13_ConsumedOnce ==
    /\ []C13_Safety
    /\ \A w \in Workers :
          (worker[w].pc = "idle")
              ~> (worker[w].pc \in {"launch", "returned", "cancelled"})

\* C13 witness: a run of two workers went to completion, both Tasks were
\* taken once, and a worker returned at the while test on the emptied queue
C13_Witness ==
    /\ mainPc = "finished"
    /\ nworkers = 2
    /\ \A t \in Tasks : enqueued[t] = 1 /\ taken[t] = 1
    /\ \E w \in Workers : worker[w].pc = "returned"

\* C14: with any number of workers, two workers never are inside the same
\* (make, year) at the same time, so the directories and markers they write
\* differ, and two workers inside scrape_vehicle_page never have the same
\* StoredFile path.
C14_Path(w) ==
    LET g == CurrentTarget(w) IN FilePath(g[1], g[2], g[3])

C14_NoSharedPath ==
    \A w1, w2 \in Workers :
        (w1 # w2 /\ InTask(w1) /\ InTask(w2)) =>
            /\ worker[w1].task # worker[w2].task
            /\ DonePath(worker[w1].task[1], worker[w1].task[2])
                  # DonePath(worker[w2].task[1], worker[w2].task[2])
            /\ (worker[w1].pc = "scrape" /\ worker[w2].pc = "scrape") =>
                  C14_Path(w1) # C14_Path(w2)

\* C14 witness: two workers are inside scrape_vehicle_page at the same time,
\* for the same model of two makes
C14_Witness ==
    /\ worker[1].pc = "scrape"
    /\ worker[2].pc = "scrape"
    /\ CurrentTarget(1)[2] = CurrentTarget(2)[2]

\* C15: after a top-level interrupt no worker starts another Task, and a
\* worker that is inside scrape_vehicle_page for a Target is not stopped
\* there: it leaves the fetch by itself, back into the model loop.  (Stated
\* as claimed; the code violates it.)
C15_Step(w) ==
    /\ mainPc = "interrupted" => worker'[w].pc # "launch"
    /\ worker[w].pc = "scrape" => worker'[w].pc \in {"scrape", "loop"}

C15_GracefulCancellation ==
    [][\A w \in Workers : C15_Step(w)]_vars

\* C16: parse_vehicle_data returns the empty sequence for a page without the
\* title element; for every other page it returns, in document order,
\* exactly one record for each panel that has a trim id, the USA-market
\* region class and a table with a body, and none for any other panel.
\* (Stated as claimed; the code violates it.)
C16_Qualifies(panel) ==
    panel.id = "trim" /\ panel.region = "usdm" /\ panel.table = "body"

C16_Expected(page) ==
    IF page.title = "absent" THEN <<>>
    ELSE SelectSeq([i \in 1..Len(page.panels) |-> [trim |-> i]],
                   LAMBDA r : C16_Qualifies(page.panels[r.trim]))

C16_ExtractorOutput ==
    (arg.fn = "parse_vehicle_data" /\ result.kind # "none") =>
        /\ result.kind = "value"
        /\ result.records = C16_Expected(arg.html_content)

\* C17: format_number maps None to None, gives back unchanged a string that
\* does not parse as a number and one that parses to a value with a
\* fraction, and turns a string that parses to a whole number into the
\* integer string of that number, without decimal point or blanks ("25.0"
\* becomes "25"); applying it to its own result changes nothing.
C17_IntegerString(s, x) ==
    /\ \A i \in 1..Len(s) : s[i] \notin {".", " "}
    /\ float(s).ok
    /\ float(s).frac = <<>>
    /\ float(s).int = float(x).int
    /\ float(s).neg = (float(x).neg /\ float(x).int # 0)

C17_FormatNumber ==
    (arg.fn = "format_number" /\ result.kind = "value") =>
        LET x == arg.num_str
            r == result.num
        IN  /\ x.none => r = None
            /\ ~x.none =>
                  /\ ~r.none
                  /\ ~float(x.s).ok => r = x
                  /\ (float(x.s).ok /\ ~is_integer(float(x.s))) => r = x
                  /\ (float(x.s).ok /\ is_integer(float(x.s))) =>
                        C17_IntegerString(r.s, x.s)
            /\ x = Str(<<"2", "5", ".", "0">>) => r = Str(<<"2", "5">>)
            /\ x = Str(<<"2", ".", "5">>) => r = x
            /\ x = Str(<<"n">>) => r = x
            /\ format_number(r) = r

\* C17 witness: format_number("25.0") has returned "25"
C17_Witness ==
    /\ arg.fn = "format_number"
    /\ arg.num_str = Str(<<"2", "5", ".", "0">>)
    /\ result.num = Str(<<"2", "5">>)

\* C18: get_staggered_data works on the span.imperial of the cell when
\* is_imperial is set and the cell has one, else on the cell.  If that
\* target holds a span.rear-tire-data, rear is the cleaned text of the first
\* such span and front the cleaned text of the target without it; else if
\* the target holds a line break, front and rear are the cleaned texts of
\* the markup before and after the first one; else front and rear are both
\* the cleaned text of the target.
C18_First(ts, tok) ==
    LET hits == {i \in 2..Len(ts) : ts[i] = tok}
    IN  IF hits = {} THEN 0 ELSE CHOOSE i \in hits : \A j \in hits : i <= j

C18_Target ==
    LET i == C18_First(arg.cell, SpanOpen("imperial"))
    IN  IF arg.is_imperial /\ i # 0 THEN ElementAt(arg.cell, i) ELSE arg.cell

C18_Example(inner, front, rear) ==
    arg.cell = <<TdOpen>> \o inner \o <<TdClose>> =>
        (result.front = Str(front) /\ result.rear = Str(rear))

C18_TwoTierSplit ==
    (arg.fn = "get_staggered_data" /\ result.kind = "value") =>
        LET target == C18_Target
            m == C18_First(target, SpanOpen("rear-tire-data"))
            b == C18_First(target, Br)
        IN  /\ m # 0 =>
                  /\ result.rear = get_clean_text(ElementAt(target, m))
                  /\ result.front = get_clean_text(Decompose(target, m))
            /\ (m = 0 /\ b # 0) =>
                  /\ result.front = get_clean_text(SubSeq(target, 1, b - 1))
                  /\ result.rear =
                        get_clean_text(SubSeq(target, b + 1, Len(target)))
            /\ (m = 0 /\ b = 0) =>
                  /\ result.front = get_clean_text(target)
                  /\ result.rear = result.front
            /\ C18_Example(<<Text(<<"3", "5">>), Br, Text(<<"4", "0">>)>>,
                           <<"3", "5">>, <<"4", "0">>)
            /\ C18_Example(<<Text(<<"3", "5">>), SpanOpen("rear-tire-data"),
                             Text(<<"4", "0">>), SpanClose>>,
                           <<"3", "5">>, <<"4", "0">>)
            /\ C18_Example(<<Text(<<"3", "5">>)>>, <<"3", "5">>, <<"3", "5">>)

\* C18 witness: a cell with a line break and a rear marker was split at the
\* marker
C18_Witness ==
    /\ arg.fn = "get_staggered_data"
    /\ arg.cell = <<TdOpen, Text(<<"3", "5">>), Br, SpanOpen("rear-tire-data"),
                    Text(<<"4", "0">>), SpanClose, TdClose>>
    /\ result.front = Str(<<"3", "5">>)
    /\ result.rear = Str(<<"4", "0">>)

\* C19: the marker of a (make, year) is created only by a worker that holds
\* the Task, after a discovery that returned, with the model loop past the
\* last model and every discovered model either called for in this run or
\* with its file in place, and with no fetch of the Task in flight; while a
\* worker is inside a Task that it has not marked, the marker is absent.
C19_Processed(w) ==
    \A i \in 1..Len(worker[w].models) :
        LET g == <<worker[w].task[1], worker[w].models[i], worker[w].task[2]>>
        IN  calls[g] >= 1 \/ FilePath(g[1], g[2], g[3]) \in files

C19_Marks(t) ==
    DonePath(t[1], t[2]) \in done' /\ DonePath(t[1], t[2]) \notin done

C19_Step ==
    \A t \in Tasks :
        C19_Marks(t) =>
            /\ \E w \in Workers :
                  /\ worker[w].task = t
                  /\ worker[w].pc = "loop"
                  /\ worker[w].discovery = "ok"
                  /\ worker[w].idx = Len(worker[w].models) + 1
                  /\ C19_Processed(w)
            /\ \A w \in Workers :
                  worker[w].task = t => worker[w].pc # "scrape"

C19_Unmarked ==
    \A w \in Workers :
        (InTask(w) /\ worker[w].exit # "normal")
            => DonePath(worker[w].task[1], worker[w].task[2]) \notin done

C19_MarkerOrdering ==
    /\ []C19_Unmarked
    /\ [][C19_Step]_vars

\* C19 witness: a worker has marked a Task of two models, the first skipped
\* because its file was there, the second called for in this run
C19_Witness ==
    \E w \in Workers :
        /\ worker[w].pc = "cleanup"
        /\ worker[w].exit = "normal"
        /\ Len(worker[w].models) = 2
        /\ DonePath(worker[w].task[1], worker[w].task[2]) \in done
        /\ calls[<<worker[w].task[1], worker[w].models[1], worker[w].task[2]>>] = 0
        /\ calls[<<worker[w].task[1], worker[w].models[2], worker[w].task[2]>>] = 1

\* C20: the n-th attempt of a call, when Retryable, is followed by a sleep
\* of INITIAL_BACKOFF_DELAY_SECONDS * 2^(n-1) seconds (30, 60, 120, 240),
\* whether it was a timeout or a detection; n is then below MAX_RETRIES; an
\* attempt that is not Retryable (Success, Fatal, Failed, the last attempt
\* among them) is followed by no sleep; the sleeps of one call add up to at
\* most 450 seconds.
C20_Schedule == <<30, 60, 120, 240>>

C20_BackoffSchedule ==
    /\ last.class = "Retryable" =>
          /\ last.n \in 1..(MAX_RETRIES - 1)
          /\ last.sleep = INITIAL_BACKOFF_DELAY_SECONDS * (2 ^ (last.n - 1))
          /\ last.sleep = C20_Schedule[last.n]
    /\ last.class \in {"Success", "Fatal", "Failed", "Skipped", "None"} =>
          last.sleep = 0
    /\ last.n = MAX_RETRIES => last.sleep = 0
    /\ last.total <= 450
    /\ \A w \in Workers : worker[w].backoff <= 450

\* C20 witness: the fourth attempt for a Target raised an exception whose
\* text names detection, after three timeouts or detections: 240 seconds
\* are slept, 450 in all
C20_Witness ==
    /\ last.class = "Retryable"
    /\ last.msgDetection
    /\ last.n = 4
    /\ last.sleep = 240
    /\ last.total = 450

\* C21: an attempt whose page loaded without the expected structure (no trim
\* panel appeared, or the page was parsed into no record, as it is without
\* the title element) is not retried: it is classified as no data
\* (Success), no backoff is slept, and the worker has left the retry loop.
\* (Stated as claimed; the code violates it.)
C21_Mismatch ==
    last.noPanel \/ (last.extracted /\ last.records = 0)

C21_MismatchNotRetried ==
    C21_Mismatch =>
        /\ last.class = "Success"
        /\ last.sleep = 0
        /\ worker[last.w].pc # "scrape"

\* C22: a worker has a rendering session only inside a Task: none when it
\* has just got the Task (the session is made anew for it), one while it
\* discovers and fetches, none again once it has left the Task by any exit
\* and is back at the while test, has returned or was cancelled; so the live
\* sessions are never more than the workers of the run, and none is live
\* when the run is over.
C22_Live == {w \in Workers : worker[w].session}

C22_SessionLifecycle ==
    /\ \A w \in Workers :
          /\ worker[w].pc \in {"unborn", "idle", "launch", "returned", "cancelled"}
                => ~worker[w].session
          /\ worker[w].pc \in {"discover", "loop", "scrape"} => worker[w].session
          /\ worker[w].session => worker[w].task # NoTask
    /\ Cardinality(C22_Live) <= nworkers
    /\ mainPc \in {"start", "finished", "interrupted"} => C22_Live = {}

\* C22 witness: the single worker of a run discovers its second Task with a
\* session, after its first Task, whose discovery had navigated with a
\* session, ended without marker, that is by an exception or a timeout
C22_Witness ==
    /\ nworkers = 1
    /\ worker[1].pc = "discover"
    /\ worker[1].session
    /\ worker[1].task = all_tasks[2]
    /\ all_tasks[1] \in visited
    /\ DonePath(all_tasks[1][1], all_tasks[1][2]) \notin done

\* C23: an attempt that got as far as parse_vehicle_data returning is the
\* last one of its call, whether it found no record, saved the records, or
\* save_vehicle_data returned False: it is classified Success, no backoff is
\* slept, and the worker is back in the model loop at the next model with
\* the one call made for the Target.
C23_NoRetryAfterExtraction ==
    last.extracted =>
        /\ last.class = "Success"
        /\ last.sleep = 0
        /\ worker[last.w].pc = "loop"
        /\ worker[last.w].attempt = 0
        /\ worker[last.w].idx >= 2
        /\ worker[last.w].models[worker[last.w].idx - 1] = last.target[2]
        /\ calls[last.target] = 1

\* C23 witness: open raised in save_vehicle_data on the first attempt for a
\* Target; no file is there and the worker has gone on
C23_Witness ==
    /\ last.extracted
    /\ last.saved = "open_error"
    /\ last.n = 1
    /\ FilePath(last.target[1], last.target[2], last.target[3]) \notin files
    /\ worker[last.w].pc = "loop"

\* C24: a marker exists only where its directory results/{make}/{year}
\* exists, and it is created only while the directory is already there; the
\* directory comes into being only in a step of a worker that is inside
\* scrape_vehicle_page for a Target of that pair and counts as one more call
\* made (save_vehicle_data's mkdir); a worker that ends the model loop of a
\* pair with no directory leaves the Task through the exception path and goes
\* on; and in every run, the first and each later one, a pair with no
\* directory when main has filtered is on that run's queue exactly once.
C24_NoDirectory(t) == DirPath(t[1], t[2]) \notin dirs

C24_State ==
    /\ \A t \in Tasks :
          /\ DonePath(t[1], t[2]) \in done => ~C24_NoDirectory(t)
          /\ (mainPc # "start" /\ C24_NoDirectory(t)) =>
                /\ DonePath(t[1], t[2]) \notin doneAtStart
                /\ enqueued[t] = 1
    /\ \A w \in Workers :
          (worker[w].pc = "cleanup" /\ worker[w].loopDone
             /\ C24_NoDirectory(worker[w].task))
               => worker[w].exit = "exception"

C24_Step ==
    \A t \in Tasks :
        /\ C19_Marks(t) => ~C24_NoDirectory(t)
        /\ (C24_NoDirectory(t) /\ DirPath(t[1], t[2]) \in dirs') =>
              \E w \in Workers :
                  /\ worker[w].pc = "scrape"
                  /\ worker[w].task = t
                  /\ worker'[w].pc = "loop"
                  /\ calls[CurrentTarget(w)] >= 1

C24_MarkerNeedsDirectory ==
    /\ []C24_State
    /\ [][C24_Step]_vars

\* C24 witness: in the second run, after a first run that ran to its end, a
\* worker has again ended the model loop of a pair that still has no
\* directory and again leaves it unmarked
C24_Witness ==
    /\ run = 2
    /\ prevEnd = "finished"
    /\ \E w \in Workers :
          /\ worker[w].pc = "cleanup"
          /\ worker[w].loopDone
          /\ worker[w].exit = "exception"
          /\ enqueued[worker[w].task] = 1
          /\ C24_NoDirectory(worker[w].task)
          /\ DonePath(worker[w].task[1], worker[w].task[2]) \notin done

\* C25: while main waits in join, the queue's count of unfinished tasks is
\* the number of Tasks still queued plus the number held by workers (one
\* task_done per dequeued Task, none missing, none extra); a run that has
\* been started reaches its end; when main has finished, nothing is queued
\* or unfinished, every worker has ended, every Task that was queued was
\* taken from the queue exactly once and none that was not queued was taken;
\* and when nothing was queued, no worker was ever created and nothing was
\* taken or navigated to.
C25_Ended(w) == worker[w].pc \in {"unborn", "returned", "cancelled"}

C25_Accounting ==
    /\ mainPc = "join" =>
          unfinished = Len(queue) + Cardinality({w \in Workers : InTask(w)})
    /\ mainPc = "finished" =>
          /\ unfinished = 0
          /\ queue = <<>>
          /\ \A w \in Workers : C25_Ended(w)
          /\ \A t \in Tasks : enqueued[t] <= 1 /\ taken[t] = enqueued[t]
          /\ (\A t \in Tasks : enqueued[t] = 0) =>
                /\ \A w \in Workers : worker[w] = FreshWorker("unborn")
                /\ ~Navigated

C25_RunTermination ==
    /\ []C25_Accounting
    /\ (mainPc \in {"start", "join"}) ~> (mainPc \in {"finished", "interrupted"})

\* C25 witness: a first run with two workers has finished with both Tasks
\* taken once and both left through the exception path (no marker written)
C25_Witness ==
    /\ run = 1
    /\ nworkers = 2
    /\ mainPc = "finished"
    /\ \A t \in Tasks : taken[t] = 1
    /\ done = {}
    /\ \A w \in Workers : worker[w].pc \in {"returned", "cancelled"}

====
